---- MODULE Spec2Model ----
(***************************************************************************)
(* A state-machine model of src/src/main.rs, the interactive deploy        *)
(* dispatcher: one run of `main`, statement by statement.  Every `?` is an *)
(* early return with an error, every slice or index that can go out of     *)
(* range is a panic, and every answer of the outside world (environment    *)
(* variables, the GitHub API, the terminal prompt) is a nondeterministic   *)
(* choice made when the program asks for it.                               *)
(*                                                                         *)
(* Strings are TLA+ strings; Len, SubSeq and \o act on them as on Rust     *)
(* strings of ASCII characters.  Option<T> is a sequence of length at most *)
(* one: None is << >>, Some(v) is << v >>.                                 *)
(***************************************************************************)
EXTENDS Integers, Sequences, FiniteSets, TLC

\* ---------------------------------------------------------------- bounds

\* The longest list of items the search endpoint returns.
MaxItems == 2

\* The longest list of commits the commit listing returns.
MaxCommits == 2

\* ------------------------------------------------------ program constants

\* `last_commit.sha[..7]`: the length of the short commit hash.
ShaLen == 7

\* `.default(0)`: the index both prompts start on.
DefaultIndex == 0

\* ------------------------------------------------------------------ data

None == << >>

Some(v) == << v >>

\* The four variables `main` reads with env::var.
VarNames ==
    {"GITHUB_TOKEN", "DEPLOY_EXPERIMENTAL_WORKFLOW_ID", "GITHUB_ORG", "GITHUB_REPO"}

\* The value each variable has when it is set.
VarValue(name) ==
    CASE name = "GITHUB_TOKEN" -> "ghp_token"
      [] name = "DEPLOY_EXPERIMENTAL_WORKFLOW_ID" -> "deploy.yml"
      [] name = "GITHUB_ORG" -> "acme"
      [] name = "GITHUB_REPO" -> "widgets"

\* The logins the identity lookup can answer with.
Logins == {"octocat"}

\* The pull requests of the remote repository, by number: what
\* pulls().get(number) answers when it succeeds.  #11 has no title, #12 an
\* empty head branch name.
PRNumbers == {10, 11, 12}

RemotePR(n) ==
    CASE n = 10 -> [number |-> 10, title |-> Some("Fix bug"), head_ref |-> "fix-bug"]
      [] n = 11 -> [number |-> 11, title |-> None, head_ref |-> "add-feat"]
      [] n = 12 -> [number |-> 12, title |-> Some("WIP"), head_ref |-> ""]

\* struct Issue: a search hit, with or without the pull_request marker.
Issues == [number : PRNumbers, pull_request : {None, Some("PullRequestRef")}]

\* The full hashes a listed commit can carry: longer than the short hash,
\* exactly as long, and shorter (empty).
Shas == {"a1b2c3d4e", "f00dfee", ""}

\* All sequences over S of length at most n.
RECURSIVE SeqsUpTo(_, _)
SeqsUpTo(S, n) ==
    IF n = 0 THEN {<< >>}
    ELSE LET shorter == SeqsUpTo(S, n - 1)
         IN  shorter \cup {Append(s, x) : s \in {t \in shorter : Len(t) = n - 1}, x \in S}

\* What the search endpoint can answer: SearchResponse.items.
SearchResults == SeqsUpTo(Issues, MaxItems)

\* What the commit listing can answer: the page's items, most recent first.
CommitLists == SeqsUpTo([sha : Shas], MaxCommits)

\* ------------------------------------------------------------ pure code

\* The fixed list of environment labels.
environments ==
    << "experimental1", "experimental2", "experimental3",
       "experimental4", "experimental5", "experimental6" >>

\* environments.iter().map(|e| e.to_string()): &str to String, same text.
env_options == [i \in 1..Len(environments) |-> environments[i]]

Digit(d) == SubSeq("0123456789", d + 1, d + 1)

\* format!("{}", n) of an unsigned integer: its decimal digits.
RECURSIVE UsizeToString(_)
UsizeToString(n) ==
    IF n < 10 THEN Digit(n) ELSE UsizeToString(n \div 10) \o Digit(n % 10)

\* format!("#{} - {}", pr.number, pr.title or "")
PrTitle(pr) ==
    "#" \o UsizeToString(pr.number) \o " - "
        \o (IF pr.title = None THEN "" ELSE pr.title[1])

\* prs.iter().map(..).collect()
PrTitles(list) == [i \in 1..Len(list) |-> PrTitle(list[i])]

\* The search query sent to /search/issues.
SearchQuery(user, org, rep) ==
    "type:pr state:open author:" \o user \o " repo:" \o org \o "/" \o rep

\* sha[..7] panics unless the string has at least 7 bytes.
CanSlice(sha) == Len(sha) >= ShaLen

\* A variant of ShortSha that is one character short: sha[..6].
ShortShaSix(sha) == SubSeq(sha, 1, ShaLen - 1)

\* sha[..7].to_string()
ShortSha(sha) == SubSeq(sha, 1, ShaLen)

\* The "inputs" object of the JSON body.
DispatchInputs(hash, sel) ==
    [commit_sha |-> hash, target |-> UsizeToString(sel)]

\* serde_json::json!({"ref": .., "inputs": {..}})
DispatchBody(branch, hash, sel) ==
    [ref |-> branch, inputs |-> DispatchInputs(hash, sel)]

\* ------------------------------------------------------------------ state

VARIABLES
    pc,             \* the statement of main that runs next
    environ,        \* the set variables of the process environment
    token,          \* Option: GITHUB_TOKEN
    workflow_id,    \* Option: DEPLOY_EXPERIMENTAL_WORKFLOW_ID
    owner,          \* Option: GITHUB_ORG
    repo,           \* Option: GITHUB_REPO
    current_user,   \* Option: the login of the authenticated user
    env_selection,  \* Option: the index the environment prompt returned
    selected_env,   \* Option: environments[env_selection]
    items,          \* Option: search_response.items
    next_item,      \* the 1-based position of the for loop in items
    prs,            \* the pull requests fetched so far
    pr_titles,      \* Option: the labels shown by the pull-request prompt
    selection,      \* Option: the index the pull-request prompt returned
    branch_name,    \* Option: the selected pull request's head branch
    commits,        \* Option: the commits listed on branch_name
    last_commit,    \* Option: commits.items.first()
    commit_hash,    \* Option: the short hash
    body,           \* Option: the JSON body
    log,            \* every remote call and prompt so far, in order
    report,         \* Option: the final "Successfully triggered" lines
    result,         \* "running", "ok" (Ok(())), "error" (Err) or "panic"
    error           \* the message of the error or panic, "" when none

vars ==
    << pc, environ, token, workflow_id, owner, repo, current_user,
       env_selection, selected_env, items, next_item, prs, pr_titles,
       selection, branch_name, commits, last_commit, commit_hash, body, log, report,
       result, error >>

\* The state main starts in, after dotenv has filled the environment.
Init ==
    /\ pc = "read_token"
    /\ environ \in SUBSET VarNames
    /\ token = None
    /\ workflow_id = None
    /\ owner = None
    /\ repo = None
    /\ current_user = None
    /\ env_selection = None
    /\ selected_env = None
    /\ items = None
    /\ next_item = 1
    /\ prs = << >>
    /\ pr_titles = None
    /\ selection = None
    /\ branch_name = None
    /\ commits = None
    /\ last_commit = None
    /\ commit_hash = None
    /\ body = None
    /\ log = << >>
    /\ report = None
    /\ result = "running"
    /\ error = ""

\* `?` on an Err: main returns the error.
Fail(msg) ==
    /\ pc' = "exit"
    /\ result' = "error"
    /\ error' = msg

\* An index out of range, a slice out of range: the thread panics.
Panic(msg) ==
    /\ pc' = "exit"
    /\ result' = "panic"
    /\ error' = msg

\* The statement ran and main goes on.
Goto(next) ==
    /\ pc' = next
    /\ UNCHANGED << result, error >>

\* env::var(name): Ok when the variable is set.
EnvVar(name) == IF name \in environ THEN Some(VarValue(name)) ELSE None

Logged(op, arg, ok) == Append(log, [op |-> op, arg |-> arg, ok |-> ok])

\* ----------------------------------------------------- configuration

\* let token = env::var("GITHUB_TOKEN").context(..)?;
ReadToken ==
    /\ pc = "read_token"
    /\ IF EnvVar("GITHUB_TOKEN") = None
       THEN /\ Fail("GITHUB_TOKEN not found in environment")
            /\ UNCHANGED token
       ELSE /\ token' = EnvVar("GITHUB_TOKEN")
            /\ Goto("read_workflow_id")
    /\ UNCHANGED << environ, workflow_id, owner, repo, current_user,
                    env_selection, selected_env, items, next_item, prs,
                    pr_titles, selection, branch_name, commits, last_commit,
                    commit_hash, body, log, report >>

\* A variant of ReadWorkflowId that goes on with an empty workflow id:
\* env::var("DEPLOY_EXPERIMENTAL_WORKFLOW_ID").unwrap_or_default().
ReadWorkflowIdOrDefault ==
    /\ pc = "read_workflow_id"
    /\ workflow_id' = IF EnvVar("DEPLOY_EXPERIMENTAL_WORKFLOW_ID") = None
                      THEN Some("")
                      ELSE EnvVar("DEPLOY_EXPERIMENTAL_WORKFLOW_ID")
    /\ Goto("build_client")
    /\ UNCHANGED << environ, token, owner, repo, current_user,
                    env_selection, selected_env, items, next_item, prs,
                    pr_titles, selection, branch_name, commits, last_commit,
                    commit_hash, body, log, report >>

\* let workflow_id = env::var("DEPLOY_EXPERIMENTAL_WORKFLOW_ID").context(..)?;
ReadWorkflowId ==
    /\ pc = "read_workflow_id"
    /\ IF EnvVar("DEPLOY_EXPERIMENTAL_WORKFLOW_ID") = None
       THEN /\ Fail("DEPLOY_EXPERIMENTAL_WORKFLOW_ID not found in environment")
            /\ UNCHANGED workflow_id
       ELSE /\ workflow_id' = EnvVar("DEPLOY_EXPERIMENTAL_WORKFLOW_ID")
            /\ Goto("build_client")
    /\ UNCHANGED << environ, token, owner, repo, current_user,
                    env_selection, selected_env, items, next_item, prs,
                    pr_titles, selection, branch_name, commits, last_commit,
                    commit_hash, body, log, report >>

\* Octocrab::builder().personal_token(token).build()?: no remote call; the
\* builder can refuse.
BuildClient ==
    /\ pc = "build_client"
    /\ \/ Goto("read_owner")
       \/ Fail("octocrab build error")
    /\ UNCHANGED << environ, token, workflow_id, owner, repo, current_user,
                    env_selection, selected_env, items, next_item, prs,
                    pr_titles, selection, branch_name, commits, last_commit,
                    commit_hash, body, log, report >>

\* A variant of ReadOwner that goes on with an empty owner:
\* env::var("GITHUB_ORG").unwrap_or_default().
ReadOwnerOrDefault ==
    /\ pc = "read_owner"
    /\ owner' = IF EnvVar("GITHUB_ORG") = None THEN Some("") ELSE EnvVar("GITHUB_ORG")
    /\ Goto("read_repo")
    /\ UNCHANGED << environ, token, workflow_id, repo, current_user,
                    env_selection, selected_env, items, next_item, prs,
                    pr_titles, selection, branch_name, commits, last_commit,
                    commit_hash, body, log, report >>

\* let owner = env::var("GITHUB_ORG").context(..)?;
ReadOwner ==
    /\ pc = "read_owner"
    /\ IF EnvVar("GITHUB_ORG") = None
       THEN /\ Fail("GITHUB_ORG not found in environment")
            /\ UNCHANGED owner
       ELSE /\ owner' = EnvVar("GITHUB_ORG")
            /\ Goto("read_repo")
    /\ UNCHANGED << environ, token, workflow_id, repo, current_user,
                    env_selection, selected_env, items, next_item, prs,
                    pr_titles, selection, branch_name, commits, last_commit,
                    commit_hash, body, log, report >>

\* let repo = env::var("GITHUB_REPO").context(..)?;
ReadRepo ==
    /\ pc = "read_repo"
    /\ IF EnvVar("GITHUB_REPO") = None
       THEN /\ Fail("GITHUB_REPO not found in environment")
            /\ UNCHANGED repo
       ELSE /\ repo' = EnvVar("GITHUB_REPO")
            /\ Goto("current_user")
    /\ UNCHANGED << environ, token, workflow_id, owner, current_user,
                    env_selection, selected_env, items, next_item, prs,
                    pr_titles, selection, branch_name, commits, last_commit,
                    commit_hash, body, log, report >>

\* -------------------------------------------------------------- identity

\* A variant of FetchCurrentUser that asks again when the lookup fails.
FetchCurrentUserRetrying ==
    /\ pc = "current_user"
    /\ \/ \E login \in Logins :
            /\ current_user' = Some(login)
            /\ log' = Logged("current_user", "", TRUE)
            /\ Goto("prompt_env")
       \/ /\ UNCHANGED current_user
          /\ log' = Logged("current_user", "", FALSE)
          /\ Goto("current_user")
    /\ UNCHANGED << environ, token, workflow_id, owner, repo,
                    env_selection, selected_env, items, next_item, prs,
                    pr_titles, selection, branch_name, commits, last_commit,
                    commit_hash, body, report >>

\* A variant of FetchCurrentUser after which the search runs before the
\* environment prompt: the two statements in the other order.
FetchCurrentUserThenSearch ==
    /\ pc = "current_user"
    /\ \/ \E login \in Logins :
            /\ current_user' = Some(login)
            /\ log' = Logged("current_user", "", TRUE)
            /\ Goto("search")
       \/ /\ UNCHANGED current_user
          /\ log' = Logged("current_user", "", FALSE)
          /\ Fail("Failed to fetch current user. Please check your GitHub token has correct permissions")
    /\ UNCHANGED << environ, token, workflow_id, owner, repo,
                    env_selection, selected_env, items, next_item, prs,
                    pr_titles, selection, branch_name, commits, last_commit,
                    commit_hash, body, report >>

\* octocrab.current().user().await.context(..)?.login
FetchCurrentUser ==
    /\ pc = "current_user"
    /\ \/ \E login \in Logins :
            /\ current_user' = Some(login)
            /\ log' = Logged("current_user", "", TRUE)
            /\ Goto("prompt_env")
       \/ /\ UNCHANGED current_user
          /\ log' = Logged("current_user", "", FALSE)
          /\ Fail("Failed to fetch current user. Please check your GitHub token has correct permissions")
    /\ UNCHANGED << environ, token, workflow_id, owner, repo,
                    env_selection, selected_env, items, next_item, prs,
                    pr_titles, selection, branch_name, commits, last_commit,
                    commit_hash, body, report >>

\* ------------------------------------------------------------ environment

\* A variant of PromptEnvironment that takes the default index when the
\* prompt fails: .interact().unwrap_or(0).
PromptEnvironmentOrDefault ==
    /\ pc = "prompt_env"
    /\ LET shown == [prompt |-> "Select environment to use",
                     items |-> env_options, default |-> DefaultIndex]
       IN  \/ \E i \in 0..(Len(env_options) - 1) :
                 /\ env_selection' = Some(i)
                 /\ log' = Logged("select", shown, TRUE)
           \/ /\ env_selection' = Some(DefaultIndex)
              /\ log' = Logged("select", shown, FALSE)
    /\ Goto("select_env")
    /\ UNCHANGED << environ, token, workflow_id, owner, repo, current_user,
                    selected_env, items, next_item, prs,
                    pr_titles, selection, branch_name, commits, last_commit,
                    commit_hash, body, report >>

\* Select::with_theme(..).with_prompt(..).items(&env_options).default(0)
\* .interact()?: the index of an item, or an error of the terminal.
PromptEnvironment ==
    /\ pc = "prompt_env"
    /\ LET shown == [prompt |-> "Select environment to use",
                     items |-> env_options, default |-> DefaultIndex]
       IN  \/ \E i \in 0..(Len(env_options) - 1) :
                 /\ env_selection' = Some(i)
                 /\ log' = Logged("select", shown, TRUE)
                 /\ Goto("select_env")
           \/ /\ UNCHANGED env_selection
              /\ log' = Logged("select", shown, FALSE)
              /\ Fail("prompt error")
    /\ UNCHANGED << environ, token, workflow_id, owner, repo, current_user,
                    selected_env, items, next_item, prs,
                    pr_titles, selection, branch_name, commits, last_commit,
                    commit_hash, body, report >>

\* let selected_env = &environments[env_selection];
SelectEnvironment ==
    /\ pc = "select_env"
    /\ IF env_selection[1] < Len(environments)
       THEN /\ selected_env' = Some(environments[env_selection[1] + 1])
            /\ Goto("search")
       ELSE /\ UNCHANGED selected_env
            /\ Panic("index out of bounds")
    /\ UNCHANGED << environ, token, workflow_id, owner, repo, current_user,
                    env_selection, items, next_item, prs,
                    pr_titles, selection, branch_name, commits, last_commit,
                    commit_hash, body, log, report >>

\* ------------------------------------------------------- pull requests

\* A variant of SearchPullRequests that takes a failed search for an empty
\* answer: .await.unwrap_or_default().
SearchPullRequestsOrDefault ==
    /\ pc = "search"
    /\ LET q == SearchQuery(current_user[1], owner[1], repo[1])
       IN  \/ \E found \in SearchResults :
                 /\ items' = Some(found)
                 /\ log' = Logged("search", q, TRUE)
           \/ /\ items' = Some(<< >>)
              /\ log' = Logged("search", q, FALSE)
    /\ Goto("fetch_prs")
    /\ UNCHANGED << environ, token, workflow_id, owner, repo, current_user,
                    env_selection, selected_env, next_item, prs,
                    pr_titles, selection, branch_name, commits, last_commit,
                    commit_hash, body, report >>

\* octocrab.get("/search/issues", q).await.context(..)?
SearchPullRequests ==
    /\ pc = "search"
    /\ LET q == SearchQuery(current_user[1], owner[1], repo[1])
       IN  \/ \E found \in SearchResults :
                 /\ items' = Some(found)
                 /\ log' = Logged("search", q, TRUE)
                 /\ Goto("fetch_prs")
           \/ /\ UNCHANGED items
              /\ log' = Logged("search", q, FALSE)
              /\ Fail("Failed to fetch PRs. Please check repository name and permissions")
    /\ UNCHANGED << environ, token, workflow_id, owner, repo, current_user,
                    env_selection, selected_env, next_item, prs,
                    pr_titles, selection, branch_name, commits, last_commit,
                    commit_hash, body, report >>

\* A variant of FetchPullRequest in which a failed lookup ends main:
\* octocrab.pulls(..).get(issue.number).await? in place of `.ok()`.
FetchPullRequestOrFail ==
    /\ pc = "fetch_prs"
    /\ next_item <= Len(items[1])
    /\ LET issue == items[1][next_item]
       IN  \/ /\ issue.pull_request = None
              /\ UNCHANGED << prs, log >>
              /\ next_item' = next_item + 1
              /\ Goto("fetch_prs")
           \/ /\ issue.pull_request # None
              /\ prs' = Append(prs, RemotePR(issue.number))
              /\ log' = Logged("pulls_get", issue.number, TRUE)
              /\ next_item' = next_item + 1
              /\ Goto("fetch_prs")
           \/ /\ issue.pull_request # None
              /\ UNCHANGED << prs, next_item >>
              /\ log' = Logged("pulls_get", issue.number, FALSE)
              /\ Fail("pull request lookup error")
    /\ UNCHANGED << environ, token, workflow_id, owner, repo, current_user,
                    env_selection, selected_env, items,
                    pr_titles, selection, branch_name, commits, last_commit,
                    commit_hash, body, report >>

\* A variant of FetchPullRequest that looks every item up, with or without
\* the pull_request marker: the `if let Some(_pr_ref)` test left out.
FetchPullRequestUnfiltered ==
    /\ pc = "fetch_prs"
    /\ next_item <= Len(items[1])
    /\ LET issue == items[1][next_item]
       IN  \/ /\ prs' = Append(prs, RemotePR(issue.number))
              /\ log' = Logged("pulls_get", issue.number, TRUE)
           \/ /\ UNCHANGED prs
              /\ log' = Logged("pulls_get", issue.number, FALSE)
    /\ next_item' = next_item + 1
    /\ Goto("fetch_prs")
    /\ UNCHANGED << environ, token, workflow_id, owner, repo, current_user,
                    env_selection, selected_env, items,
                    pr_titles, selection, branch_name, commits, last_commit,
                    commit_hash, body, report >>

\* One turn of `for issue in search_response.items`: an issue without the
\* pull_request marker is passed over; one with it is looked up, and pushed
\* when the lookup succeeds (`.ok()` turns a failed lookup into None).
FetchPullRequest ==
    /\ pc = "fetch_prs"
    /\ next_item <= Len(items[1])
    /\ LET issue == items[1][next_item]
       IN  \/ /\ issue.pull_request = None
              /\ UNCHANGED << prs, log >>
           \/ /\ issue.pull_request # None
              /\ prs' = Append(prs, RemotePR(issue.number))
              /\ log' = Logged("pulls_get", issue.number, TRUE)
           \/ /\ issue.pull_request # None
              /\ UNCHANGED prs
              /\ log' = Logged("pulls_get", issue.number, FALSE)
    /\ next_item' = next_item + 1
    /\ Goto("fetch_prs")
    /\ UNCHANGED << environ, token, workflow_id, owner, repo, current_user,
                    env_selection, selected_env, items,
                    pr_titles, selection, branch_name, commits, last_commit,
                    commit_hash, body, report >>

\* The loop is over: let pr_titles = prs.iter().map(..).collect();
BuildPrTitles ==
    /\ pc = "fetch_prs"
    /\ next_item > Len(items[1])
    /\ pr_titles' = Some(PrTitles(prs))
    /\ Goto("prompt_pr")
    /\ UNCHANGED << environ, token, workflow_id, owner, repo, current_user,
                    env_selection, selected_env, items, next_item, prs,
                    selection, branch_name, commits, last_commit,
                    commit_hash, body, log, report >>

\* The indices Select::interact() can return for a list of n items.  For an
\* empty list the answer depends on the dialoguer release: it is an error,
\* or the default index.
PromptAnswers(n) == IF n = 0 THEN {DefaultIndex} ELSE 0..(n - 1)

\* Select::with_theme(..).with_prompt("Select a PR").items(&pr_titles)
\* .default(0).interact()?
PromptPullRequest ==
    /\ pc = "prompt_pr"
    /\ LET shown == [prompt |-> "Select a PR",
                     items |-> pr_titles[1], default |-> DefaultIndex]
       IN  \/ \E i \in PromptAnswers(Len(pr_titles[1])) :
                 /\ selection' = Some(i)
                 /\ log' = Logged("select", shown, TRUE)
                 /\ Goto("select_pr")
           \/ /\ UNCHANGED selection
              /\ log' = Logged("select", shown, FALSE)
              /\ Fail("prompt error")
    /\ UNCHANGED << environ, token, workflow_id, owner, repo, current_user,
                    env_selection, selected_env, items, next_item, prs,
                    pr_titles, branch_name, commits, last_commit,
                    commit_hash, body, report >>

\* A variant of SelectedPr that takes the first pull request whatever the
\* index: &prs[0].
SelectedPrFirst(list, sel) == list[1]

\* The pull request `&prs[selection]` names.
SelectedPr(list, sel) == list[sel + 1]

\* A variant of SelectPullRequest that takes a default pull request, with an
\* empty branch name, for an index out of range:
\* prs.get(selection).cloned().unwrap_or_default().
SelectPullRequestOrDefault ==
    /\ pc = "select_pr"
    /\ branch_name' = IF selection[1] < Len(prs)
                      THEN Some(SelectedPr(prs, selection[1]).head_ref)
                      ELSE Some("")
    /\ Goto("list_commits")
    /\ UNCHANGED << environ, token, workflow_id, owner, repo, current_user,
                    env_selection, selected_env, items, next_item, prs,
                    pr_titles, selection, commits, last_commit,
                    commit_hash, body, log, report >>

\* let selected_pr = &prs[selection];
\* let branch_name = selected_pr.head.ref_field.clone();
SelectPullRequest ==
    /\ pc = "select_pr"
    /\ IF selection[1] < Len(prs)
       THEN /\ branch_name' = Some(SelectedPr(prs, selection[1]).head_ref)
            /\ Goto("list_commits")
       ELSE /\ UNCHANGED branch_name
            /\ Panic("index out of bounds")
    /\ UNCHANGED << environ, token, workflow_id, owner, repo, current_user,
                    env_selection, selected_env, items, next_item, prs,
                    pr_titles, selection, commits, last_commit,
                    commit_hash, body, log, report >>

\* ---------------------------------------------------------------- commit

\* octocrab.repos(..).list_commits().branch(&branch_name).send().await?
ListCommits ==
    /\ pc = "list_commits"
    /\ \/ \E page \in CommitLists :
             /\ commits' = Some(page)
             /\ log' = Logged("list_commits", branch_name[1], TRUE)
             /\ Goto("first_commit")
       \/ /\ UNCHANGED commits
          /\ log' = Logged("list_commits", branch_name[1], FALSE)
          /\ Fail("list commits error")
    /\ UNCHANGED << environ, token, workflow_id, owner, repo, current_user,
                    env_selection, selected_env, items, next_item, prs,
                    pr_titles, selection, branch_name, last_commit,
                    commit_hash, body, report >>

\* A variant of First that answers a default commit for an empty page:
\* .first().cloned().unwrap_or_default().
FirstOrDefault(page) ==
    IF page = << >> THEN Some([sha |-> ""]) ELSE Some(page[1])

\* commits.items.first()
First(page) == IF page = << >> THEN None ELSE Some(page[1])

\* let last_commit = commits.items.first().context("No commits found in branch")?;
FirstCommit ==
    /\ pc = "first_commit"
    /\ IF First(commits[1]) = None
       THEN /\ UNCHANGED last_commit
            /\ Fail("No commits found in branch")
       ELSE /\ last_commit' = First(commits[1])
            /\ Goto("short_sha")
    /\ UNCHANGED << environ, token, workflow_id, owner, repo, current_user,
                    env_selection, selected_env, items, next_item, prs,
                    pr_titles, selection, branch_name, commits,
                    commit_hash, body, log, report >>

\* A variant of TakeShortSha that takes at most 7 characters and never
\* panics: sha.chars().take(7).collect().
TakeShortShaLenient ==
    /\ pc = "short_sha"
    /\ LET sha == last_commit[1].sha
           n == IF Len(sha) < ShaLen THEN Len(sha) ELSE ShaLen
       IN  commit_hash' = Some(SubSeq(sha, 1, n))
    /\ Goto("build_body")
    /\ UNCHANGED << environ, token, workflow_id, owner, repo, current_user,
                    env_selection, selected_env, items, next_item, prs,
                    pr_titles, selection, branch_name, commits, last_commit,
                    body, log, report >>

\* let commit_hash = last_commit.sha[..7].to_string();
TakeShortSha ==
    /\ pc = "short_sha"
    /\ IF CanSlice(last_commit[1].sha)
       THEN /\ commit_hash' = Some(ShortSha(last_commit[1].sha))
            /\ Goto("build_body")
       ELSE /\ UNCHANGED commit_hash
            /\ Panic("byte index 7 is out of bounds")
    /\ UNCHANGED << environ, token, workflow_id, owner, repo, current_user,
                    env_selection, selected_env, items, next_item, prs,
                    pr_titles, selection, branch_name, commits, last_commit,
                    body, log, report >>

\* -------------------------------------------------------------- dispatch

\* let body = serde_json::json!({..});
BuildBody ==
    /\ pc = "build_body"
    /\ body' = Some(DispatchBody(branch_name[1], commit_hash[1], env_selection[1]))
    /\ Goto("dispatch")
    /\ UNCHANGED << environ, token, workflow_id, owner, repo, current_user,
                    env_selection, selected_env, items, next_item, prs,
                    pr_titles, selection, branch_name, commits, last_commit,
                    commit_hash, log, report >>

\* What create_workflow_dispatch(owner, repo, workflow_id, &branch_name)
\* .inputs(body["inputs"]) sends.
DispatchRequest ==
    [owner |-> owner[1], repo |-> repo[1], workflow_id |-> workflow_id[1],
     ref |-> branch_name[1], inputs |-> body[1].inputs]

\* A variant of Dispatch that sends the request again when it fails.
DispatchRetrying ==
    /\ pc = "dispatch"
    /\ \/ /\ log' = Logged("dispatch", DispatchRequest, TRUE)
          /\ Goto("report")
       \/ /\ log' = Logged("dispatch", DispatchRequest, FALSE)
          /\ Goto("dispatch")
    /\ UNCHANGED << environ, token, workflow_id, owner, repo, current_user,
                    env_selection, selected_env, items, next_item, prs,
                    pr_titles, selection, branch_name, commits, last_commit,
                    commit_hash, body, report >>

\* octocrab.actions().create_workflow_dispatch(..).inputs(..).send().await
\* .context(..)?
Dispatch ==
    /\ pc = "dispatch"
    /\ \/ /\ log' = Logged("dispatch", DispatchRequest, TRUE)
          /\ Goto("report")
       \/ /\ log' = Logged("dispatch", DispatchRequest, FALSE)
          /\ Fail("Failed to trigger workflow. Please check workflow inputs match your workflow file.")
    /\ UNCHANGED << environ, token, workflow_id, owner, repo, current_user,
                    env_selection, selected_env, items, next_item, prs,
                    pr_titles, selection, branch_name, commits, last_commit,
                    commit_hash, body, report >>

\* The three lines after "Successfully triggered GitHub Action:".
SuccessReport ==
    [branch |-> branch_name[1], commit |-> commit_hash[1],
     environment |-> UsizeToString(env_selection[1])]

\* println!(..) four times, then Ok(())
Report ==
    /\ pc = "report"
    /\ report' = Some(SuccessReport)
    /\ pc' = "exit"
    /\ result' = "ok"
    /\ UNCHANGED error
    /\ UNCHANGED << environ, token, workflow_id, owner, repo, current_user,
                    env_selection, selected_env, items, next_item, prs,
                    pr_titles, selection, branch_name, commits, last_commit,
                    commit_hash, body, log >>

\* ------------------------------------------------------------- behaviour

Next ==
    \/ ReadToken
    \/ ReadWorkflowId
    \/ BuildClient
    \/ ReadOwner
    \/ ReadRepo
    \/ FetchCurrentUser
    \/ PromptEnvironment
    \/ SelectEnvironment
    \/ SearchPullRequests
    \/ FetchPullRequest
    \/ BuildPrTitles
    \/ PromptPullRequest
    \/ SelectPullRequest
    \/ ListCommits
    \/ FirstCommit
    \/ TakeShortSha
    \/ BuildBody
    \/ Dispatch
    \/ Report

Spec == Init /\ [][Next]_vars

\* ------------------------------------------------- reading the log

\* The positions of the log that hold a call of `op`.
Calls(op) == {i \in DOMAIN log : log[i].op = op}

\* The positions of the log where the prompter was invoked with `text`.
Prompts(text) == {i \in Calls("select") : log[i].arg.prompt = text}

EnvPrompts == Prompts("Select environment to use")

PrPrompts == Prompts("Select a PR")

\* The operations that go to the remote API.
RemoteOps == {"current_user", "search", "pulls_get", "list_commits", "dispatch"}

RemoteCalls == {i \in DOMAIN log : log[i].op \in RemoteOps}

Dispatched == Calls("dispatch") # {}

\* The fetch phase is over: the search answered and the loop over its items
\* ran to the end.
FetchDone == pr_titles # None

RequiredVars == {"GITHUB_TOKEN", "GITHUB_ORG", "GITHUB_REPO"}

NotFound(name) == name \o " not found in environment"

ConfigErrors == {NotFound(name) : name \in VarNames}

\* The messages a failed remote request ends main with.
RemoteErrors ==
    { "Failed to fetch current user. Please check your GitHub token has correct permissions",
      "Failed to fetch PRs. Please check repository name and permissions",
      "list commits error",
      "Failed to trigger workflow. Please check workflow inputs match your workflow file." }

\* ------------------------------------------------------------------ C1

\* C1: the dispatch call is issued at most once in a run, and whenever it is
\* issued its inputs map has exactly the keys commit_sha and target, both
\* bound to non-empty strings.
C1_DispatchOnceWellFormed ==
    /\ Cardinality(Calls("dispatch")) <= 1
    /\ \A i \in Calls("dispatch") :
          /\ DOMAIN log[i].arg.inputs = {"commit_sha", "target"}
          /\ Len(log[i].arg.inputs.commit_sha) > 0
          /\ Len(log[i].arg.inputs.target) > 0

\* A run that issued the dispatch call and ended.
C1_Witness == Dispatched /\ pc = "exit"

\* ------------------------------------------------------------------ C2

\* C2 (as claimed): when the candidate list is empty after the fetch phase,
\* the run ends with success, and lists no commits and dispatches nothing.
C2_EmptyCandidatesSucceed ==
    (FetchDone /\ prs = << >> /\ pc = "exit") =>
        /\ result = "ok"
        /\ Calls("list_commits") = {}
        /\ ~Dispatched

\* ------------------------------------------------------------------ C3

\* C3 (as claimed): the prompter is invoked for the pull-request choice only
\* with a non-empty candidate list.
C3_PrPromptOnlyNonEmpty ==
    \A i \in PrPrompts : Len(log[i].arg.items) > 0

\* ------------------------------------------------------------------ C4

\* C4: when the commit listing of the selected branch returns no commit, the
\* run ends in the fatal "No commits found in branch" error, which is none of
\* the errors of a failed remote request, and no dispatch call is issued.
C4_NoCommitsIsFatal ==
    (commits = Some(<< >>)) =>
        /\ ~Dispatched
        /\ pc \in {"first_commit", "exit"}
        /\ pc = "exit" =>
              /\ result = "error"
              /\ error = "No commits found in branch"
              /\ error \notin RemoteErrors
              /\ \A i \in Calls("list_commits") : log[i].ok

\* A run that listed the commits of a branch, got none, and ended.
C4_Witness == commits = Some(<< >>) /\ pc = "exit"

\* ------------------------------------------------------------------ C5

\* C5 (as claimed): when a required variable is absent, the run fails with a
\* configuration error before any remote call and before any prompt.
C5_MissingConfigIsConfigError ==
    (RequiredVars \ environ # {}) =>
        /\ log = << >>
        /\ pc = "exit" => (result = "error" /\ error \in ConfigErrors)

\* C5 (amended): when a required variable is absent, the run fails before
\* any remote call and before any prompt, with a configuration error or,
\* when the token and the workflow id are set and the API client cannot be
\* built, with the client's build error: the client is built before
\* GITHUB_ORG and GITHUB_REPO are read.
C5_MissingConfigFailsFast ==
    (RequiredVars \ environ # {}) =>
        /\ log = << >>
        /\ pc \in {"read_token", "read_workflow_id", "build_client",
                   "read_owner", "read_repo", "exit"}
        /\ pc = "exit" =>
              /\ result = "error"
              /\ \/ error \in ConfigErrors
                 \/ /\ error = "octocrab build error"
                    /\ {"GITHUB_TOKEN", "DEPLOY_EXPERIMENTAL_WORKFLOW_ID"} \subseteq environ

\* A run that found GITHUB_REPO, the variable read last, absent and ended.
C5_Witness ==
    /\ "GITHUB_REPO" \notin environ
    /\ pc = "exit"
    /\ error = NotFound("GITHUB_REPO")

\* ------------------------------------------------------------------ C6

C7_TargetIsLabel ==
    \A i \in Calls("dispatch") :
        log[i].arg.inputs.target = environments[env_selection[1] + 1]

\* ------------------------------------------------------------------ C8

\* C8: the git ref of the dispatch call is the head branch of the candidate
\* at the index the user selected, and its commit_sha input is the short sha
\* of the first commit listed for that branch; commits were listed for that
\* branch and for no other.
C8_DispatchMatchesSelection ==
    \A i \in Calls("dispatch") :
        /\ selection # None
        /\ selection[1] < Len(prs)
        /\ log[i].arg.ref = prs[selection[1] + 1].head_ref
        /\ \A j \in Calls("list_commits") :
              j < i /\ log[j].ok /\ log[j].arg = prs[selection[1] + 1].head_ref
        /\ Cardinality(Calls("list_commits")) = 1
        /\ commits # None
        /\ commits[1] # << >>
        /\ log[i].arg.inputs.commit_sha = SubSeq(commits[1][1].sha, 1, ShaLen)

\* A dispatch for the second of two candidates with different branches, whose
\* branch lists two commits with different hashes.
C8_Witness ==
    /\ Dispatched
    /\ Len(prs) = 2
    /\ selection = Some(1)
    /\ prs[1].head_ref # prs[2].head_ref
    /\ Len(commits[1]) = 2
    /\ ShortSha(commits[1][1].sha) # ShortSha(commits[1][2].sha)

\* ------------------------------------------------------------------ C9

\* The pull-request fetch has started: the search call was issued.
FetchStarted == Calls("search") # {}

Marked == {k \in DOMAIN items[1] : items[1][k].pull_request # None}

\* C10: the pull-request prompt is presented only after the environment
\* prompt has returned and the fetch has completed (the search answered and
\* every marked item was looked up); when the search call fails the run ends
\* in a fatal error, with no pull-request prompt and no candidate list.
C10_PrPromptAfterJoin ==
    /\ \A i \in PrPrompts :
          /\ \E j \in EnvPrompts : j < i /\ log[j].ok
          /\ \E j \in Calls("search") : j < i /\ log[j].ok
          /\ items # None
          /\ next_item > Len(items[1])
          /\ Cardinality({j \in Calls("pulls_get") : j < i}) = Cardinality(Marked)
          /\ log[i].arg.items = PrTitles(prs)
    /\ \A j \in Calls("search") :
          ~log[j].ok =>
              /\ pc = "exit"
              /\ result = "error"
              /\ error = "Failed to fetch PRs. Please check repository name and permissions"
              /\ PrPrompts = {}
              /\ pr_titles = None
              /\ Calls("pulls_get") = {}

\* The pull-request prompt was presented with two candidates.
C10_Witness ==
    \E i \in PrPrompts : Len(log[i].arg.items) = 2

\* ----------------------------------------------------------------- C11

IsMarked(issue) == issue.pull_request # None

IsLookup(entry) == entry.op = "pulls_get"

\* The items the loop has passed so far, and those of them with the marker.
Passed == IF items = None THEN << >> ELSE SubSeq(items[1], 1, next_item - 1)

PassedMarked == SelectSeq(Passed, IsMarked)

\* The pull-request lookups of the log, in order.
Lookups == SelectSeq(log, IsLookup)

\* The pull requests of the items whose lookup succeeded, in the items'
\* order: `looked` are the items looked up, `calls` their lookups.
RECURSIVE Kept(_, _)
Kept(looked, calls) ==
    IF looked = << >> THEN << >>
    ELSE (IF Head(calls).ok THEN << RemotePR(Head(looked).number) >> ELSE << >>)
         \o Kept(Tail(looked), Tail(calls))

\* C11: a failed pull-request lookup drops that item only and never ends the
\* run; the candidates are the pull requests of the search items whose
\* lookup succeeded, in the search result's order, and that list, formatted,
\* is what the prompter is given.
C11_FailedLookupDropsItemOnly ==
    /\ \A i \in Calls("pulls_get") :
          (~log[i].ok /\ i = Len(log)) =>
              (pc \in {"fetch_prs", "prompt_pr"} /\ result = "running" /\ error = "")
    /\ Len(Lookups) = Len(PassedMarked)
    /\ prs = Kept(PassedMarked, Lookups)
    /\ Len(prs) <= Len(Passed)
    /\ \A i \in PrPrompts :
          /\ next_item = Len(items[1]) + 1
          /\ log[i].arg.items = PrTitles(Kept(PassedMarked, Lookups))

\* The prompter was given one candidate, the second item's, after the lookup
\* of the first item failed.
C11_Witness ==
    /\ PrPrompts # {}
    /\ Len(Lookups) = 2
    /\ ~Lookups[1].ok
    /\ Lookups[2].ok
    /\ Len(prs) = 1

\* ----------------------------------------------------------------- C20

\* C20: an item without the pull_request marker is never looked up and never
\* becomes a candidate: the lookups are, one for one and in order, the items
\* passed that carry the marker, every candidate is the pull request of such
\* an item, and there are no more candidates than lookups.
C20_OnlyMarkedItemsLookedUp ==
    /\ Len(Lookups) = Len(PassedMarked)
    /\ \A j \in DOMAIN Lookups : Lookups[j].arg = PassedMarked[j].number
    /\ Len(prs) <= Len(Lookups)
    /\ \A k \in DOMAIN prs :
          \E j \in DOMAIN PassedMarked : prs[k].number = PassedMarked[j].number
    /\ FetchDone =>
          /\ Cardinality(Calls("pulls_get")) = Cardinality(Marked)
          /\ Len(prs) <= Cardinality(Marked)

\* The loop ended over two items, the first without the marker, the second
\* with it and looked up.
C20_Witness ==
    /\ FetchDone
    /\ Len(items[1]) = 2
    /\ items[1][1].pull_request = None
    /\ items[1][2].pull_request # None
    /\ Len(Lookups) = 1
    /\ Len(prs) = 1

\* ----------------------------------------------------------------- C12

\* C12 (as claimed): the dispatch call is never sent with an empty branch
\* name or an empty short hash.
C12_NoEmptyBranchOrHash ==
    \A i \in Calls("dispatch") :
        /\ Len(log[i].arg.ref) > 0
        /\ Len(log[i].arg.inputs.commit_sha) > 0

\* ----------------------------------------------------------------- C13

\* The first n characters of s, all of s when it is shorter.
Prefix(s, n) == SubSeq(s, 1, IF Len(s) < n THEN Len(s) ELSE n)

\* C13: whenever a short sha is chosen, the commit list is not empty, the
\* short sha is the first 7 characters of the full sha of the list's first
\* entry, and it has 7 characters when the full sha has at least 7.  (A
\* full sha of fewer than 7 characters makes the slice panic: none is chosen.)
C13_ShortShaIsPrefixOfFirst ==
    /\ commit_hash # None =>
          /\ commits # None
          /\ commits[1] # << >>
          /\ commit_hash[1] = Prefix(commits[1][1].sha, 7)
          /\ Len(commits[1][1].sha) >= 7 => Len(commit_hash[1]) = 7
    /\ (last_commit # None /\ pc \notin {"short_sha", "exit"}) =>
          commit_hash # None
    /\ (last_commit # None /\ pc = "exit" /\ commit_hash = None) =>
          (result = "panic" /\ Len(last_commit[1].sha) < 7)

\* A short sha chosen from a list of two commits with different hashes, the
\* first of them longer than 7 characters.
C13_Witness ==
    /\ commit_hash # None
    /\ Len(commits[1]) = 2
    /\ Len(commits[1][1].sha) > 7
    /\ commits[1][1].sha # commits[1][2].sha

\* ----------------------------------------------------------------- C14

\* C14: when the identity lookup fails, the run ends in a fatal error at
\* once: the lookup is not repeated, and no prompt, search, pull-request
\* lookup, commit listing or dispatch happens.
C14_IdentityFailureIsFatal ==
    \A i \in Calls("current_user") :
        ~log[i].ok =>
            /\ pc = "exit"
            /\ result = "error"
            /\ error = "Failed to fetch current user. Please check your GitHub token has correct permissions"
            /\ Len(log) = 1
            /\ current_user = None

\* A run in which the identity lookup failed.
C14_Witness ==
    \E i \in Calls("current_user") : ~log[i].ok

\* ----------------------------------------------------------------- C15

\* C15: no remote operation is repeated: the identity lookup, the search,
\* the commit listing and the dispatch are each called at most once, the
\* pull-request lookup once for each marked item passed, and a failure of
\* anything but a pull-request lookup is the last entry of the log, with the
\* run ended.
C15_NoRetry ==
    /\ \A op \in {"current_user", "search", "list_commits", "dispatch"} :
          Cardinality(Calls(op)) <= 1
    /\ Len(Lookups) = Len(PassedMarked)
    /\ \A j \in DOMAIN Lookups : Lookups[j].arg = PassedMarked[j].number
    /\ \A i \in DOMAIN log :
          (~log[i].ok /\ log[i].op # "pulls_get") =>
              /\ i = Len(log)
              /\ pc = "exit"
              /\ result = "error"
    /\ (pc = "exit") =>
          \A i \in RemoteCalls : \A j \in DOMAIN log :
              (~log[j].ok /\ log[j].op # "pulls_get") => i <= j

\* A run that ended on a failed dispatch, its sixth remote call.
C15_Witness ==
    /\ pc = "exit"
    /\ \E i \in Calls("dispatch") : ~log[i].ok
    /\ Cardinality(Calls("pulls_get")) = 2

\* ----------------------------------------------------------------- C16

\* C16: a dispatch call is issued only after, in this order, a successful
\* identity lookup, an answered environment prompt, an answered pull-request
\* prompt over a non-empty candidate list, and a commit listing, for the
\* chosen pull request's branch, that returned at least one commit.
C16_DispatchAfterAllSteps ==
    \A d \in Calls("dispatch") :
        \E a \in Calls("current_user") : \E e \in EnvPrompts :
        \E p \in PrPrompts : \E c \in Calls("list_commits") :
            /\ a < e /\ e < p /\ p < c /\ c < d
            /\ log[a].ok /\ log[e].ok /\ log[p].ok /\ log[c].ok
            /\ Len(log[p].arg.items) > 0
            /\ selection[1] < Len(log[p].arg.items)
            /\ log[c].arg = prs[selection[1] + 1].head_ref
            /\ Len(commits[1]) >= 1
            /\ d = Len(log)

\* A dispatch call was issued.
C16_Witness ==
    \E d \in Calls("dispatch") : log[d].ok /\ Len(prs) = 1

\* ----------------------------------------------------------------- C17

\* C17: when a prompt ends in an error instead of an answer, the run ends in
\* a fatal error and nothing follows: no dispatch call is issued, and after a
\* failed environment prompt no pull-request prompt is presented.
C17_AbortedPromptIsFatal ==
    \A i \in Calls("select") :
        ~log[i].ok =>
            /\ pc = "exit"
            /\ result = "error"
            /\ error = "prompt error"
            /\ i = Len(log)
            /\ ~Dispatched
            /\ (i \in EnvPrompts) => (PrPrompts = {} /\ Calls("search") = {})

\* A run in which the pull-request prompt, over two candidates, failed.
C17_Witness ==
    \E i \in PrPrompts : ~log[i].ok /\ Len(log[i].arg.items) = 2

\* ----------------------------------------------------------------- C18

\* C18 (as claimed): the success report is printed exactly when the dispatch
\* call was issued and succeeded; a failed dispatch ends in a fatal error
\* without a report; and the environment the report shows is the label of
\* the chosen environment.
C18_ReportIffDispatchedWithLabel ==
    /\ report # None => (\E d \in Calls("dispatch") : log[d].ok)
    /\ (pc = "exit" /\ \E d \in Calls("dispatch") : log[d].ok) =>
          (report # None /\ result = "ok")
    /\ result = "ok" => report # None
    /\ \A d \in Calls("dispatch") :
          ~log[d].ok => (pc = "exit" /\ result = "error" /\ report = None)
    /\ report # None =>
          /\ report[1].branch = branch_name[1]
          /\ report[1].commit = commit_hash[1]
          /\ report[1].environment = environments[env_selection[1] + 1]

\* ----------------------------------------------------------------- C19

====
